---- MODULE Spec2Model ----
(***************************************************************************)
(* A model of pysar/pysarApp.py: the command-line step selection           *)
(* (cmd_line_parse), the template resolution of TimeSeriesAnalysis.startup *)
(* and _read_template, and the stage dispatch of TimeSeriesAnalysis.run.   *)
(*                                                                         *)
(* The revision modelled is work in progress.  configure (lines 262-268)   *)
(* stops in the middle of a statement, run is written without its self     *)
(* parameter (line 319), startup reads inps.workDir where only             *)
(* self.workDir is in scope (line 167) and run calls a plot method the     *)
(* class does not define (line 327).  The model reads every function as    *)
(* the sequence of statements it is written as: startup takes the work     *)
(* directory from self.workDir, run is a method of the object, plot is an  *)
(* external collaborator without effect on the modelled state, and the     *)
(* body configure lacks is taken from the class docstring (lines 134-137)  *)
(* and the Step Scheduler's contract: one do<Step> flag per step, set when *)
(* the step is among runSteps.                                             *)
(*                                                                         *)
(* The helpers of pysar.utils (readfile.read_template,                     *)
(* ut.update_template_file, ut.run_or_skip, ut.check_template_auto_value)  *)
(* are not part of this source file; they are modelled from the written    *)
(* specification of the Template Store, Template Resolver and Staleness    *)
(* Oracle.                                                                 *)
(***************************************************************************)
EXTENDS Integers, Sequences, FiniteSets, TLC

VARIABLES
    args,            \* the command line: what argparse hands to cmd_line_parse
    inps,            \* the namespace cmd_line_parse returns
    pc,              \* position of main
    err,             \* the exception that ended main, kind "none" while it runs
    runNo,           \* how many times the program has been started
    disk,            \* <workDir>/pysarApp_template.txt
    disk0,           \* ... as it was when this process started
    tier,            \* ... as startup left it (the default tier _read_template merges into)
    custom,          \* the custom template file named on the command line
    backup,          \* <workDir>/INPUTS/<custom template name>
    backup0,         \* ... as it was when this process started
    addNew,          \* which reading of ut.update_template_file the helper follows
    upgraded,        \* startup printed 'obsolete default template detected'
    copiedBackup,    \* _read_template printed 'copy ... to INPUTS directory'
    app,             \* the TimeSeriesAnalysis object
    records,         \* the stage methods run() has called, in call order
    ip,              \* index of the next call of run()
    proc,            \* the external process of the stage being dispatched
    cwd,             \* the process working directory
    prev,            \* what the previous process left: its effective template and template file
    writes           \* how many times this process has written the template file

vars == <<args, inps, pc, err, runNo, disk, disk0, tier, custom, backup, backup0,
          addNew, upgraded, copiedBackup, app, records, ip, proc, cwd, prev, writes>>

-----------------------------------------------------------------------------
(* Bounds of the model *)

MaxRuns == 2         \* program starts in one behaviour (Run / Rerun)
MaxStatus == 1       \* exit statuses of an external stage process: 0..MaxStatus
MaxTime == 2         \* modification times: 1..MaxTime
MaxCustomKeys == 2   \* options set in a custom template

-----------------------------------------------------------------------------
(* Step catalog and selection: lines 29-45, 78-84, 88-129 *)

STEP_LIST ==
    << "loadData", "refPoint", "stacking", "unwCor", "netModify", "netInversion",
       "tropo", "deramp", "topo", "residRms", "refDate", "ts2vel", "geocode",
       "googleEarth", "hdfEos5" >>

\* Python's None for an option that was not given
None == "<None>"

\* Python truth of an option value: None and '' are false
Truthy(v) == v # None /\ v # ""

\* value in STEP_LIST
InStepList(v) == \E i \in DOMAIN STEP_LIST : STEP_LIST[i] = v

\* STEP_LIST.index(v), 0-based as in Python; the caller has checked membership
StepIndex(v) == (CHOOSE i \in DOMAIN STEP_LIST : STEP_LIST[i] = v) - 1

\* mutant: a start after the end is taken as the range from the end to the start
SliceEitherWay(s, idx0, idx1) ==
    IF idx0 > idx1 THEN SubSeq(s, idx1 + 1, idx0) ELSE SubSeq(s, idx0 + 1, idx1)

\* STEP_LIST[idx0:idx1], Python's half-open slice on 0-based indices
Slice(s, idx0, idx1) == SubSeq(s, idx0 + 1, idx1)

\* argparse defaults of --start, --end, --dostep
DefaultStart == STEP_LIST[1]
DefaultEnd == STEP_LIST[Len(STEP_LIST)]
DefaultDoStep == None

NoErr == [kind |-> "none", value |-> "", steps |-> << >>]

\* the loop over startStep, endStep, doStep: the first value that is given and unknown
FirstInvalid(a) ==
    LET given == << a.startStep, a.endStep, a.doStep >>
        bad == { i \in 1..3 : Truthy(given[i]) /\ ~InStepList(given[i]) }
    IN  IF bad = {} THEN None
        ELSE given[CHOOSE i \in bad : \A j \in bad : i <= j]

\* mutant: --dostep overrides --start/--end before the three are validated
cmd_line_parse_override_first(a) ==
    LET b == IF Truthy(a.doStep)
             THEN [a EXCEPT !.startStep = a.doStep, !.endStep = a.doStep]
             ELSE a
        bad == FirstInvalid(b)
    IN  IF bad # None
        THEN [err |-> [kind |-> "ValueError", value |-> bad, steps |-> STEP_LIST],
              startStep |-> b.startStep, endStep |-> b.endStep, runSteps |-> << >>]
        ELSE IF ~InStepList(b.startStep) \/ ~InStepList(b.endStep)
        THEN [err |-> [kind |-> "ValueError",
                       value |-> IF ~InStepList(b.startStep) THEN b.startStep ELSE b.endStep,
                       steps |-> << >>],
              startStep |-> b.startStep, endStep |-> b.endStep, runSteps |-> << >>]
        ELSE [err |-> NoErr, startStep |-> b.startStep, endStep |-> b.endStep,
              runSteps |-> Slice(STEP_LIST, StepIndex(b.startStep), StepIndex(b.endStep))]

\* lines 110-126: validate the three options, apply --dostep, slice the catalog.
\* A start or end of '' passes the validation (it is false) and then fails in
\* STEP_LIST.index, a ValueError whose message names the value but not the catalog.
cmd_line_parse(a) ==
    LET bad == FirstInvalid(a)
        startStep == IF Truthy(a.doStep) THEN a.doStep ELSE a.startStep
        endStep == IF Truthy(a.doStep) THEN a.doStep ELSE a.endStep
    IN  IF bad # None
        THEN [err |-> [kind |-> "ValueError", value |-> bad, steps |-> STEP_LIST],
              startStep |-> a.startStep, endStep |-> a.endStep, runSteps |-> << >>]
        ELSE IF ~InStepList(startStep) \/ ~InStepList(endStep)
        THEN [err |-> [kind |-> "ValueError",
                       value |-> IF ~InStepList(startStep) THEN startStep ELSE endStep,
                       steps |-> << >>],
              startStep |-> startStep, endStep |-> endStep, runSteps |-> << >>]
        ELSE [err |-> NoErr, startStep |-> startStep, endStep |-> endStep,
              runSteps |-> Slice(STEP_LIST, StepIndex(startStep), StepIndex(endStep))]

-----------------------------------------------------------------------------
(* Template values.  A value is the sequence of its characters, so that       *)
(* str.lower() and str.replace('-', '_') are computed and not assumed.        *)

V_def     == << "d", "e", "f" >>
V_default == << "d", "e", "f", "a", "u", "l", "t" >>
V_y       == << "y" >>
V_on      == << "o", "n" >>
V_true    == << "t", "r", "u", "e" >>
V_n       == << "n" >>
V_off     == << "o", "f", "f" >>
V_false   == << "f", "a", "l", "s", "e" >>
V_auto    == << "a", "u", "t", "o" >>
V_yes     == << "y", "e", "s" >>
V_no      == << "n", "o" >>
V_Y       == << "Y" >>
V_ON      == << "O", "N" >>
V_Default == << "D", "e", "f", "a", "u", "l", "t" >>
V_Hyphen  == << "P", "-", "r" >>     \* a mixed-case, hyphenated method name
V_isce    == << "i", "s", "c", "e" >>
V_roipac  == << "r", "o", "i", "p", "a", "c" >>
V_10      == << "1", "0" >>

UpperCase == << "A","B","C","D","E","F","G","H","I","J","K","L","M",
                "N","O","P","Q","R","S","T","U","V","W","X","Y","Z" >>
LowerCase == << "a","b","c","d","e","f","g","h","i","j","k","l","m",
                "n","o","p","q","r","s","t","u","v","w","x","y","z" >>

\* str.lower() on one character
LowerChar(c) ==
    IF \E i \in DOMAIN UpperCase : UpperCase[i] = c
    THEN LowerCase[CHOOSE i \in DOMAIN UpperCase : UpperCase[i] = c]
    ELSE c

\* str.lower()
Lower(v) == [i \in 1..Len(v) |-> LowerChar(v[i])]

\* str.replace(old, new) for single characters
Replace(v, old, new) == [i \in 1..Len(v) |-> IF v[i] = old THEN new ELSE v[i]]

-----------------------------------------------------------------------------
(* Template keys and the dictionaries read from template files *)

K_DERAMP   == "pysar.deramp"
K_TROPO    == "pysar.troposphericDelay.method"
K_LOADPROC == "pysar.load.processor"
K_PROC     == "processor"
K_XMIN     == "SUBSET_XMIN"
K_YMIN     == "SUBSET_YMIN"
K_EXTRA    == "pysar.extra"       \* an option only a custom template sets
K_OLD      == "pysar.old"         \* an option only an older default template holds

EmptyDict == [k \in {} |-> << >>]

\* the dictionaries with at most n keys of K, key k holding a value of V(k)
Dicts(K, V(_), n) ==
    UNION { { f \in [D -> UNION { V(k) : k \in D }] : \A k \in D : f[k] \in V(k) } :
            D \in { E \in SUBSET K : Cardinality(E) <= n } }

\* line 185: the shipped default template (defaults/pysarApp_template.txt), as read
lfile == [k \in { K_LOADPROC, K_DERAMP, K_TROPO } |-> V_auto]

\* readfile.read_template: the Template Store parses one key = value pair per line
\* into a mapping; a template file is modelled by the mapping it holds
read_template(file) == file.cfg

\* ut.update_template_file(file, dict): the file's options overwritten by the
\* dictionary's.  The Template Resolver describes the helper twice: reconcile
\* overrides only keys the file holds, merge also adds the keys the file lacks.
\* withNew chooses the reading; both are explored.
update_template_file(fileCfg, d, withNew) ==
    [k \in DOMAIN fileCfg \cup (IF withNew THEN DOMAIN d ELSE {}) |->
        IF k \in DOMAIN d THEN d[k] ELSE fileCfg[k]]

\* ut.run_or_skip(out_file, in_file, check_readable): the Staleness Oracle's decide
run_or_skip(out, ins, check_readable) ==
    IF ~out.exists THEN "run"
    ELSE IF check_readable /\ ~out.readable THEN "run"
    ELSE IF \E i \in DOMAIN ins : ins[i].exists /\ ins[i].mtime > out.mtime THEN "run"
    ELSE "skip"

\* the Template Store's persist: the template file is written when the options
\* to put into it change what it holds; the number of writes that makes
persist_writes(old, new) == IF new = old THEN 0 ELSE 1

-----------------------------------------------------------------------------
(* TimeSeriesAnalysis.startup, section 3.1: lines 183-201 *)

NoFile == [exists |-> FALSE, cfg |-> EmptyDict]

\* mutant: a template that is in the work directory is never upgraded
startup_template_kept(cfile, withNew) ==
    IF ~cfile.exists
    THEN [file |-> [exists |-> TRUE, cfg |-> lfile], upgraded |-> FALSE]
    ELSE [file |-> cfile, upgraded |-> FALSE]

\* mutant: the obsolete template is replaced and its option values are lost
startup_template_reset(cfile, withNew) ==
    IF ~cfile.exists
    THEN [file |-> [exists |-> TRUE, cfg |-> lfile], upgraded |-> FALSE]
    ELSE IF \E key \in DOMAIN lfile : key \notin DOMAIN read_template(cfile)
    THEN [file |-> [exists |-> TRUE, cfg |-> lfile], upgraded |-> TRUE]
    ELSE [file |-> cfile, upgraded |-> FALSE]

\* copy the shipped default in when the work directory has none; when it has one
\* that lacks a key of the shipped default, copy the shipped default over it and
\* write the old option values back
startup_template(cfile, withNew) ==
    IF ~cfile.exists
    THEN [file |-> [exists |-> TRUE, cfg |-> lfile], upgraded |-> FALSE]
    ELSE LET ldict == lfile
             cdict == read_template(cfile)
         IN  IF \E key \in DOMAIN ldict : key \notin DOMAIN cdict
             THEN [file |-> [exists |-> TRUE,
                             cfg |-> update_template_file(ldict, cdict, withNew)],
                   upgraded |-> TRUE]
             ELSE [file |-> cfile, upgraded |-> FALSE]

\* lines 187-198: how many times startup writes the template file.  shutil.copy2
\* writes it (lines 189, 196); after an upgrade update_template_file writes the
\* old option values into the fresh copy (line 198).
startup_writes(cfile, withNew) ==
    IF ~cfile.exists
    THEN 1
    ELSE LET ldict == lfile
             cdict == read_template(cfile)
         IN  IF \E key \in DOMAIN ldict : key \notin DOMAIN cdict
             THEN 1 + persist_writes(ldict, update_template_file(ldict, cdict, withNew))
             ELSE 0

-----------------------------------------------------------------------------
(* TimeSeriesAnalysis._read_template: lines 208-259 *)

\* line 219: the backup is decided with check_readable=False
BackupCheckReadable == FALSE

\* mutant: the custom template is copied whatever run_or_skip answers
backup_custom_always(cfile, out) ==
    IF cfile.exists
    THEN [backup |-> [exists |-> TRUE, readable |-> TRUE, mtime |-> cfile.mtime,
                      wellFormed |-> cfile.wellFormed, cfg |-> cfile.cfg],
          copied |-> TRUE, err |-> NoErr]
    ELSE [backup |-> out, copied |-> FALSE,
          err |-> [kind |-> "NotFoundError", value |-> "custom", steps |-> << >>]]

\* lines 215-221: copy the custom template into INPUTS when run_or_skip says 'run'.
\* shutil.copy2 copies the content and the modification time, and raises when
\* the custom template does not exist.
backup_custom(cfile, out) ==
    IF run_or_skip(out, << cfile >>, BackupCheckReadable) = "run"
    THEN IF cfile.exists
         THEN [backup |-> [exists |-> TRUE, readable |-> TRUE, mtime |-> cfile.mtime,
                           wellFormed |-> cfile.wellFormed, cfg |-> cfile.cfg],
               copied |-> TRUE, err |-> NoErr]
         ELSE [backup |-> out, copied |-> FALSE,
               err |-> [kind |-> "NotFoundError", value |-> "custom", steps |-> << >>]]
    ELSE [backup |-> out, copied |-> FALSE, err |-> NoErr]

\* lines 228-231
standardValues ==
    (V_def :> V_auto) @@ (V_default :> V_auto) @@
    (V_y :> V_yes) @@ (V_on :> V_yes) @@ (V_true :> V_yes) @@
    (V_n :> V_no) @@ (V_off :> V_no) @@ (V_false :> V_no)

\* mutant: the aliases are matched without regard to case
normalize_values_nocase(cdict) ==
    [key \in DOMAIN cdict |->
        IF Lower(cdict[key]) \in DOMAIN standardValues
        THEN standardValues[Lower(cdict[key])]
        ELSE cdict[key]]

\* lines 232-234: a value that is one of the aliases becomes its standard value
normalize_values(cdict) ==
    [key \in DOMAIN cdict |->
        IF cdict[key] \in DOMAIN standardValues
        THEN standardValues[cdict[key]]
        ELSE cdict[key]]

\* line 236
MethodKeys == { K_DERAMP, K_TROPO }

\* lines 236-238: the two method options in lower case, '-' replaced by '_'
normalize_methods(cdict) ==
    [key \in DOMAIN cdict |->
        IF key \in MethodKeys THEN Replace(Lower(cdict[key]), "-", "_") ELSE cdict[key]]

\* mutant: processor sets pysar.load.processor only where the custom template
\* does not set it itself
forward_processor_unset(cdict) ==
    IF K_PROC \in DOMAIN cdict /\ K_LOADPROC \notin DOMAIN cdict
    THEN [key \in DOMAIN cdict \cup { K_LOADPROC } |->
            IF key = K_LOADPROC THEN cdict[K_PROC] ELSE cdict[key]]
    ELSE cdict

\* lines 240-241: the legacy option processor sets pysar.load.processor
forward_processor(cdict) ==
    IF K_PROC \in DOMAIN cdict
    THEN [key \in DOMAIN cdict \cup { K_LOADPROC } |->
            IF key = K_LOADPROC THEN cdict[K_PROC] ELSE cdict[key]]
    ELSE cdict

\* line 246
LoadOnlyKeys == { K_XMIN, K_YMIN }

\* mutant: only the first of the two options is dropped
drop_load_only_first(cdict) == [key \in DOMAIN cdict \ { K_XMIN } |-> cdict[key]]

\* lines 246-248: the options only load_data.py reads are dropped
drop_load_only(cdict) == [key \in DOMAIN cdict \ LoadOnlyKeys |-> cdict[key]]

\* lines 225-250: self.customTemplate from the custom template as read
custom_template(cdict) ==
    drop_load_only(forward_processor(normalize_methods(normalize_values(cdict))))

\* ut.check_template_auto_value: the Template Resolver's normalize, applied once
\* more to the template read back
check_template_auto_value(cfg) == normalize_methods(normalize_values(cfg))

NoCustomTemplate == [set |-> FALSE, cfg |-> EmptyDict]

\* mutant: the custom template's values are not written into the template file
resolve_template_unmerged(fileCfg, ct, withNew) ==
    [file |-> fileCfg, template |-> check_template_auto_value(fileCfg)]

\* mutant: the template is read before the custom template's values are written
resolve_template_read_first(fileCfg, ct, withNew) ==
    [file |-> IF ct.set THEN update_template_file(fileCfg, ct.cfg, withNew) ELSE fileCfg,
     template |-> check_template_auto_value(fileCfg)]

\* mutant: the template is written again after check_template_auto_value
resolve_writes_rewritten(fileCfg, ct, withNew) ==
    IF ct.set
    THEN persist_writes(fileCfg, update_template_file(fileCfg, ct.cfg, withNew)) + 1
    ELSE 0

\* lines 252-257: how many times _read_template writes the template file: once
\* when update_template_file (line 254) puts the custom template's values into
\* it, never without a custom template
resolve_writes(fileCfg, ct, withNew) ==
    IF ct.set
    THEN persist_writes(fileCfg, update_template_file(fileCfg, ct.cfg, withNew))
    ELSE 0

\* lines 252-258: write the custom template's values into the template file,
\* read the file back and pass it through check_template_auto_value
resolve_template(fileCfg, ct, withNew) ==
    LET merged == IF ct.set THEN update_template_file(fileCfg, ct.cfg, withNew)
                  ELSE fileCfg
    IN  [file |-> merged, template |-> check_template_auto_value(merged)]

-----------------------------------------------------------------------------
(* The program: main, lines 336-348 *)

NoInps == [customTemplateFile |-> None, startStep |-> None, endStep |-> None,
           runSteps |-> << >>]

\* the object before __init__ has run
NoApp == [customTemplateFile |-> None, projectName |-> None,
          customTemplate |-> NoCustomTemplate, template |-> EmptyDict,
          resolved |-> FALSE, configured |-> FALSE, doLoadData |-> FALSE,
          auxCopied |-> FALSE, auxFailed |-> FALSE]

\* mutant: run calls runRefPoint before runLoadData
RunCallsSwapped == << "runRefPoint", "runLoadData", "plot" >>

\* lines 319-327: the calls of run, in the order written
RunCalls == << "runLoadData", "runRefPoint", "plot" >>

\* no exit status (the stage returned none, or its process is still running),
\* or the exit status s
NoStatus == << >>
Status(s) == << s >>

\* cmd_line_parse, lines 88-129: -H and --version end the program (lines 94-102),
\* a custom template named pysarApp_template.txt is ignored (lines 105-107)
CmdLineParse ==
    /\ pc = "parse"
    /\ IF args.flag # "none"
       THEN /\ pc' = "exit"
            /\ UNCHANGED << inps, err >>
       ELSE LET r == cmd_line_parse(args)
                ctf == IF args.customTemplateFile = "pysarApp_template.txt"
                       THEN None ELSE args.customTemplateFile
            IN  /\ inps' = [customTemplateFile |-> ctf, startStep |-> r.startStep,
                            endStep |-> r.endStep, runSteps |-> r.runSteps]
                /\ err' = r.err
                /\ pc' = IF r.err.kind = "none" THEN "startup" ELSE "error"
    /\ UNCHANGED << args, runNo, disk, disk0, tier, custom, backup, backup0, addNew,
                    upgraded, copiedBackup, app, records, ip, proc, cwd, prev, writes >>

\* __init__ (lines 139-144) and startup up to the default template (lines 147-201).
\* Of the work directory (lines 160-181) the model keeps that the process is in it.
Startup ==
    /\ pc = "startup"
    /\ LET r == startup_template(disk, addNew)
       IN  /\ disk' = r.file
           /\ upgraded' = r.upgraded
           /\ tier' = r.file.cfg
    /\ app' = [NoApp EXCEPT
                 !.customTemplateFile = inps.customTemplateFile,
                 !.projectName = IF inps.customTemplateFile # None THEN "proj" ELSE None]
    /\ writes' = writes + startup_writes(disk, addNew)
    /\ cwd' = "work"
    /\ pc' = "read_template"
    /\ UNCHANGED << args, inps, err, runNo, disk0, custom, backup, backup0, addNew,
                    copiedBackup, records, ip, proc, prev >>

\* mutant: a custom template that cannot be copied or read is skipped and main
\* goes on with the default template alone
ReadTemplateSwallowed ==
    /\ pc = "read_template"
    /\ LET named == app.customTemplateFile # None
           b == IF named THEN backup_custom(custom, backup)
                ELSE [backup |-> backup, copied |-> copiedBackup, err |-> NoErr]
           ct == IF named /\ custom.exists /\ custom.wellFormed
                 THEN [set |-> TRUE, cfg |-> custom_template(read_template(custom))]
                 ELSE NoCustomTemplate
           r == resolve_template(read_template(disk), ct, addNew)
       IN  /\ backup' = b.backup
           /\ copiedBackup' = b.copied
           /\ disk' = [exists |-> TRUE, cfg |-> r.file]
           /\ app' = [app EXCEPT !.customTemplate = ct, !.template = r.template,
                                 !.resolved = TRUE]
           /\ writes' = writes + resolve_writes(read_template(disk), ct, addNew)
    /\ pc' = "configure"
    /\ UNCHANGED << args, inps, err, runNo, disk0, tier, custom, backup0, addNew,
                    upgraded, records, ip, proc, cwd, prev >>

\* the end of startup (lines 203-205): _read_template, lines 208-259
ReadTemplate ==
    /\ pc = "read_template"
    /\ IF app.customTemplateFile = None
       THEN LET r == resolve_template(read_template(disk), NoCustomTemplate, addNew)
            IN  /\ app' = [app EXCEPT !.template = r.template, !.resolved = TRUE]
                /\ pc' = "configure"
                /\ writes' = writes + resolve_writes(read_template(disk),
                                                     NoCustomTemplate, addNew)
                /\ UNCHANGED << disk, backup, copiedBackup, err >>
       ELSE LET b == backup_custom(custom, backup)
            IN  /\ backup' = b.backup
                /\ copiedBackup' = b.copied
                /\ IF b.err.kind # "none"
                   THEN /\ err' = b.err
                        /\ pc' = "error"
                        /\ UNCHANGED << app, disk, writes >>
                   ELSE IF ~custom.exists
                   THEN /\ err' = [kind |-> "NotFoundError", value |-> "custom",
                                   steps |-> << >>]
                        /\ pc' = "error"
                        /\ UNCHANGED << app, disk, writes >>
                   ELSE IF ~custom.wellFormed
                   THEN /\ err' = [kind |-> "ConfigParseError", value |-> "custom",
                                   steps |-> << >>]
                        /\ pc' = "error"
                        /\ UNCHANGED << app, disk, writes >>
                   ELSE LET ct == [set |-> TRUE,
                                   cfg |-> custom_template(read_template(custom))]
                            r == resolve_template(read_template(disk), ct, addNew)
                        IN  /\ disk' = [exists |-> TRUE, cfg |-> r.file]
                            /\ app' = [app EXCEPT !.customTemplate = ct,
                                                  !.template = r.template,
                                                  !.resolved = TRUE]
                            /\ writes' = writes + resolve_writes(read_template(disk),
                                                                 ct, addNew)
                            /\ pc' = "configure"
                            /\ UNCHANGED err
    /\ UNCHANGED << args, inps, runNo, disk0, tier, custom, backup0, addNew, upgraded,
                    records, ip, proc, cwd, prev >>

\* configure, lines 262-268: the flag runLoadData tests (line 275)
Configure ==
    /\ pc = "configure"
    /\ app' = [app EXCEPT !.configured = TRUE,
                          !.doLoadData = \E i \in DOMAIN inps.runSteps :
                                            inps.runSteps[i] = "loadData"]
    /\ pc' = "run"
    /\ UNCHANGED << args, inps, err, runNo, disk, disk0, tier, custom, backup, backup0,
                    addNew, upgraded, copiedBackup, records, ip, proc, cwd, prev, writes >>

\* what the try block of _copy_aux_file may meet: it copied some file into the
\* work directory, it raised (SCRATCHDIR not set, a file that cannot be copied)
AuxOutcomes == [copied : BOOLEAN, raised : BOOLEAN]

\* mutant: the try block is not guarded, what it raises leaves _copy_aux_file
copy_aux_file_unguarded(projectName, met) ==
    IF projectName = None
    THEN [copied |-> FALSE, swallowed |-> FALSE, raised |-> FALSE]
    ELSE [copied |-> met.copied, swallowed |-> FALSE, raised |-> met.raised]

\* _copy_aux_file, lines 293-312: nothing without a project name (lines 294-295);
\* with one, the files the try block reached are copied and whatever it raised
\* is swallowed (except: pass, lines 310-311)
copy_aux_file(projectName, met) ==
    IF projectName = None
    THEN [copied |-> FALSE, swallowed |-> FALSE, raised |-> FALSE]
    ELSE [copied |-> met.copied, swallowed |-> met.raised, raised |-> FALSE]

\* runLoadData up to the start of load_data.py, lines 270-288: without the flag
\* of configure it returns 0 and no command; with it, _copy_aux_file and then
\* the command
RunLoadData ==
    /\ pc = "run"
    /\ RunCalls[ip] = "runLoadData"
    /\ IF ~app.doLoadData
       THEN /\ records' = Append(records, [stage |-> "loadData", cmd |-> FALSE,
                                           status |-> Status(0)])
            /\ ip' = ip + 1
            /\ UNCHANGED << app, proc, pc, err >>
       ELSE /\ \E met \in AuxOutcomes :
                 LET r == copy_aux_file(app.projectName, met)
                 IN  /\ app' = [app EXCEPT !.auxCopied = r.copied,
                                           !.auxFailed = r.swallowed \/ r.raised]
                     /\ IF r.raised
                        THEN /\ err' = [kind |-> "AuxCopyError", value |-> "",
                                        steps |-> << >>]
                             /\ pc' = "error"
                             /\ UNCHANGED << records, proc >>
                        ELSE /\ records' = Append(records,
                                                  [stage |-> "loadData", cmd |-> TRUE,
                                                   status |-> NoStatus])
                             /\ proc' = "running"
                             /\ pc' = "wait"
                             /\ UNCHANGED err
            /\ UNCHANGED ip
    /\ UNCHANGED << args, inps, runNo, disk, disk0, tier, custom, backup, backup0,
                    addNew, upgraded, copiedBackup, cwd, prev, writes >>

\* lines 288-290: load_data.py exits, wait() returns its status, runLoadData
\* goes back to the work directory and returns
LoadDataExit ==
    /\ pc = "wait"
    /\ proc = "running"
    /\ \E s \in 0..MaxStatus :
          records' = [records EXCEPT ![Len(records)].status = Status(s)]
    /\ proc' = "idle"
    /\ cwd' = "work"
    /\ ip' = ip + 1
    /\ pc' = "run"
    /\ UNCHANGED << args, inps, err, runNo, disk, disk0, tier, custom, backup, backup0,
                    addNew, upgraded, copiedBackup, app, prev, writes >>

\* runRefPoint, lines 315-317: a docstring and nothing else
RunRefPoint ==
    /\ pc = "run"
    /\ RunCalls[ip] = "runRefPoint"
    /\ records' = Append(records, [stage |-> "refPoint", cmd |-> FALSE,
                                   status |-> NoStatus])
    /\ ip' = ip + 1
    /\ UNCHANGED << args, inps, pc, err, runNo, disk, disk0, tier, custom, backup,
                    backup0, addNew, upgraded, copiedBackup, app, proc, cwd, prev, writes >>

\* the end of run, lines 326-332: plot, then back to the original directory
Finish ==
    /\ pc = "run"
    /\ RunCalls[ip] = "plot"
    /\ cwd' = "orig"
    /\ pc' = "done"
    /\ UNCHANGED << args, inps, err, runNo, disk, disk0, tier, custom, backup, backup0,
                    addNew, upgraded, copiedBackup, app, records, ip, proc, prev, writes >>

\* lines 48-49, Run / Rerun: the program is started again with the same command
\* line, on the files the previous process left
Rerun ==
    /\ pc \in { "done", "error", "exit" }
    /\ runNo < MaxRuns
    /\ runNo' = runNo + 1
    /\ prev' = [resolved |-> app.resolved, template |-> app.template, disk |-> disk]
    /\ disk0' = disk
    /\ backup0' = backup
    /\ tier' = EmptyDict
    /\ inps' = NoInps
    /\ err' = NoErr
    /\ upgraded' = FALSE
    /\ copiedBackup' = FALSE
    /\ app' = NoApp
    /\ records' = << >>
    /\ ip' = 1
    /\ proc' = "idle"
    /\ cwd' = "orig"
    /\ writes' = 0
    /\ pc' = "parse"
    /\ UNCHANGED << args, disk, custom, backup, addNew >>

Next ==
    \/ CmdLineParse
    \/ Startup
    \/ ReadTemplate
    \/ Configure
    \/ RunLoadData
    \/ LoadDataExit
    \/ RunRefPoint
    \/ Finish
    \/ Rerun

-----------------------------------------------------------------------------
(* Initial states *)

\* what --start, --end and --dostep may be given: a step, an unknown name, ''
StepInputs == { STEP_LIST[i] : i \in DOMAIN STEP_LIST } \cup { "bogus", "" }

DefaultArgs == [startStep |-> DefaultStart, endStep |-> DefaultEnd,
                doStep |-> DefaultDoStep, customTemplateFile |-> None, flag |-> "none"]

NoCustomFile == [exists |-> FALSE, wellFormed |-> FALSE, mtime |-> 0, cfg |-> EmptyDict]

CustomFile(t, cfg) == [exists |-> TRUE, wellFormed |-> TRUE, mtime |-> t, cfg |-> cfg]

NoBackup == [exists |-> FALSE, readable |-> FALSE, mtime |-> 0, wellFormed |-> FALSE,
             cfg |-> EmptyDict]

\* the state of a process that has just been started
InitProcess ==
    /\ inps = NoInps
    /\ pc = "parse"
    /\ err = NoErr
    /\ runNo = 1
    /\ disk0 = disk
    /\ backup0 = backup
    /\ tier = EmptyDict
    /\ upgraded = FALSE
    /\ copiedBackup = FALSE
    /\ app = NoApp
    /\ records = << >>
    /\ ip = 1
    /\ proc = "idle"
    /\ cwd = "orig"
    /\ writes = 0
    /\ prev = [resolved |-> FALSE, template |-> EmptyDict, disk |-> NoFile]

\* every command line of step options, in a fresh work directory, without and
\* with a custom template
Init ==
    /\ \/ /\ args \in [startStep : StepInputs, endStep : StepInputs,
                       doStep : StepInputs \cup { None },
                       customTemplateFile : { None, "proj.template" },
                       flag : { "none" }]
       \/ /\ args \in [startStep : { DefaultStart }, endStep : { DefaultEnd },
                       doStep : { DefaultDoStep }, customTemplateFile : { None },
                       flag : { "H", "version" }]
    /\ custom = IF args.customTemplateFile = None THEN NoCustomFile
                ELSE CustomFile(1, [k \in { K_DERAMP } |-> V_Hyphen])
    /\ disk = NoFile
    /\ backup = NoBackup
    /\ addNew = FALSE
    /\ InitProcess

Spec == Init /\ [][Next]_vars

\* the option values a custom template is given for each key
CustomVals(k) ==
    CASE k = K_DERAMP   -> { V_def, V_default, V_y, V_on, V_true, V_n, V_off, V_false,
                             V_auto, V_Y, V_ON, V_Default, V_Hyphen }
      [] k = K_TROPO    -> { V_def, V_ON, V_Default, V_Hyphen }
      [] k = K_EXTRA    -> { V_def, V_default, V_y, V_on, V_true, V_n, V_off, V_false,
                             V_Y, V_Default, V_Hyphen }
      [] k = K_PROC     -> { V_isce, V_def }
      [] k = K_LOADPROC -> { V_roipac, V_y }
      [] OTHER          -> { V_10 }

CustomKeys == { K_DERAMP, K_TROPO, K_EXTRA, K_PROC, K_LOADPROC, K_XMIN, K_YMIN }

\* the option values the template in the work directory may hold for each key:
\* the shipped 'auto', or what the user or an earlier run wrote
DiskVals(k) ==
    CASE k = K_DERAMP   -> { V_auto, V_Default }
      [] k = K_LOADPROC -> { V_auto, V_y }
      [] OTHER          -> { V_auto }

DiskKeys == { K_LOADPROC, K_DERAMP, K_TROPO, K_OLD }

\* the few custom templates tried against every template of the work directory
FewVals(k) == IF k = K_DERAMP THEN { V_Default, V_Hyphen } ELSE { V_y }

\* the default step options and a custom template
CustomArgs == [DefaultArgs EXCEPT !.customTemplateFile = "proj.template"]

\* every template in the work directory, without a custom template and with a few
InitDisk ==
    /\ disk \in { NoFile } \cup
                { [exists |-> TRUE, cfg |-> d] : d \in Dicts(DiskKeys, DiskVals, 4) }
    /\ \/ /\ args = DefaultArgs
          /\ custom = NoCustomFile
       \/ /\ args = CustomArgs
          /\ custom \in { CustomFile(1, d) :
                          d \in Dicts({ K_DERAMP, K_EXTRA }, FewVals, MaxCustomKeys) }
    /\ backup = NoBackup
    /\ addNew \in BOOLEAN

\* every custom template, in a fresh work directory and in one that holds the
\* shipped default
InitCustom ==
    /\ disk \in { NoFile, [exists |-> TRUE, cfg |-> lfile] }
    /\ args = CustomArgs
    /\ custom \in { CustomFile(1, d) : d \in Dicts(CustomKeys, CustomVals, MaxCustomKeys) }
    /\ backup = NoBackup
    /\ addNew \in BOOLEAN

\* every age of the custom template and of its backup; a custom template that
\* is missing or malformed; the default template given as the custom one
InitBackup ==
    /\ disk = NoFile
    /\ args \in { CustomArgs,
                  [DefaultArgs EXCEPT !.customTemplateFile = "pysarApp_template.txt"] }
    /\ custom \in { [exists |-> e, wellFormed |-> w, mtime |-> IF e THEN t ELSE 0,
                     cfg |-> IF e /\ w THEN [k \in { K_DERAMP } |-> V_Hyphen]
                             ELSE EmptyDict] :
                    e \in BOOLEAN, w \in BOOLEAN, t \in 1..MaxTime }
    /\ backup \in { NoBackup } \cup
                  { [exists |-> TRUE, readable |-> r, mtime |-> t, wellFormed |-> TRUE,
                     cfg |-> EmptyDict] : r \in BOOLEAN, t \in 1..MaxTime }
    /\ addNew = FALSE

InitRes == (InitDisk \/ InitCustom \/ InitBackup) /\ InitProcess

\* the program on its template inputs, with the default step options
SpecRes == InitRes /\ [][Next]_vars

-----------------------------------------------------------------------------
(* Step selection: claims C1, C2, C3 *)

\* cmd_line_parse has returned a namespace
Selected == pc \notin { "parse", "exit", "error" }

\* 1-based place of a step in the catalog
Place(v) == CHOOSE i \in DOMAIN STEP_LIST : STEP_LIST[i] = v

\* C1: with --dostep d, a catalog stage, and valid or default --start and --end,
\* the stages selected to run are exactly << d >>.
C1_DoStepSelectsThatStage ==
    (Selected /\ InStepList(args.doStep)) => inps.runSteps = << args.doStep >>

\* C2: without --dostep, valid --start s and --end e with s not after e select
\* the catalog from s through e, both included; the defaults select the catalog.
C2_ClosedRange ==
    ( /\ Selected
      /\ ~Truthy(args.doStep)
      /\ InStepList(args.startStep) /\ InStepList(args.endStep)
      /\ Place(args.startStep) <= Place(args.endStep) )
    => inps.runSteps = SubSeq(STEP_LIST, Place(args.startStep), Place(args.endStep))

\* the options given on the command line that name no catalog stage
InvalidGiven ==
    { v \in { args.startStep, args.endStep, args.doStep } : Truthy(v) /\ ~InStepList(v) }

-----------------------------------------------------------------------------
(* Stage dispatch: claims C4, C5 *)

\* the stage of record i was dispatched and its process returned a non-zero status
Failed(i) ==
    /\ records[i].cmd
    /\ records[i].status # NoStatus
    /\ records[i].status # Status(0)

\* C4: once a dispatched stage has exited non-zero no later stage is attempted,
\* and the run does not end as completed.
C4_FailFast ==
    \A i \in DOMAIN records :
        Failed(i) => (i = Len(records) /\ pc # "done")

\* C5: the run list is a contiguous slice of the catalog in catalog order; the
\* stages are attempted in strictly increasing catalog order, hence none twice;
\* a stage is attempted only after the process of the stage before it has
\* returned its exit status, so at most one process runs.
C5_CatalogOrder ==
    /\ \E i \in 1..(Len(STEP_LIST) + 1), j \in 0..Len(STEP_LIST) :
          inps.runSteps = SubSeq(STEP_LIST, i, j)
    /\ \A i, j \in DOMAIN records :
          i < j => Place(records[i].stage) < Place(records[j].stage)
    /\ \A i \in DOMAIN records :
          (records[i].cmd /\ records[i].status = NoStatus)
          => (i = Len(records) /\ proc = "running")
    /\ proc = "running"
       => (records # << >> /\ records[Len(records)].cmd
                           /\ records[Len(records)].status = NoStatus)

\* C5 witness: loadData was dispatched and has returned, and refPoint was then attempted
C5_Witness ==
    /\ Len(records) = 2
    /\ records[1].stage = "loadData" /\ records[1].cmd /\ records[1].status # NoStatus
    /\ records[2].stage = "refPoint"
    /\ Len(inps.runSteps) > 1

-----------------------------------------------------------------------------
(* Template resolution: claims C6, C7, C8, C9, C10 *)

\* template resolution has completed with a custom template
ResolvedWithCustom == app.resolved /\ app.customTemplate.set

\* C6: after resolution with a custom template, the effective configuration
\* holds the custom tier's value for every key of both tiers and the default's
\* value for every key of the default tier alone.
C6_EffectiveHoldsCustom ==
    ResolvedWithCustom =>
        \A k \in DOMAIN tier :
            /\ k \in DOMAIN app.template
            /\ app.template[k] = IF k \in DOMAIN app.customTemplate.cfg
                                 THEN app.customTemplate.cfg[k]
                                 ELSE tier[k]

\* C6 as amended: after resolution with a custom template, the template file
\* resolution has written (which the effective configuration is read from,
\* before its last pass over the values) holds the custom tier's value for
\* every key of both tiers and the default's value for every key of the default
\* tier alone.
C6_MergedFileHoldsCustom ==
    ResolvedWithCustom =>
        \A k \in DOMAIN tier :
            /\ k \in DOMAIN disk.cfg
            /\ disk.cfg[k] = IF k \in DOMAIN app.customTemplate.cfg
                             THEN app.customTemplate.cfg[k]
                             ELSE tier[k]

\* C6 witness: the custom template has overridden one key of the default tier
\* and left another, which holds a value that is not the shipped one
C6_Witness ==
    /\ ResolvedWithCustom
    /\ \E k \in DOMAIN tier \cap DOMAIN app.customTemplate.cfg :
          tier[k] # app.customTemplate.cfg[k] /\ disk.cfg[k] = app.customTemplate.cfg[k]
    /\ \E k \in DOMAIN tier \ DOMAIN app.customTemplate.cfg :
          tier[k] # V_auto /\ disk.cfg[k] = tier[k]

\* a key of the shipped default is absent from the template of the work directory
Obsolete(cfile) == \E k \in DOMAIN lfile : k \notin DOMAIN cfile.cfg

\* C7: startup upgrades the template of the work directory iff a key of the
\* shipped default is absent from it; the upgraded template has every key of the
\* shipped default, with the on-disk value for a key of both and the shipped
\* value for a new key; without a missing key the template is left as it was.
C7_ObsoleteUpgrade ==
    (pc = "read_template" /\ disk0.exists) =>
        /\ upgraded <=> Obsolete(disk0)
        /\ upgraded =>
              /\ DOMAIN lfile \subseteq DOMAIN disk.cfg
              /\ \A k \in DOMAIN lfile :
                    disk.cfg[k] = IF k \in DOMAIN disk0.cfg THEN disk0.cfg[k] ELSE lfile[k]
        /\ ~upgraded => disk = disk0

\* C7 witness: an upgrade that kept an on-disk value and added a new key
C7_Witness ==
    /\ pc = "read_template"
    /\ disk0.exists
    /\ upgraded
    /\ \E k \in DOMAIN lfile \cap DOMAIN disk0.cfg : disk0.cfg[k] # lfile[k]
    /\ \E k \in DOMAIN lfile : k \notin DOMAIN disk0.cfg
    /\ \E k \in DOMAIN disk0.cfg : k \notin DOMAIN lfile

\* C8: a second resolution with the same shipped default and custom template,
\* starting from the template file the first wrote, yields the first's
\* effective configuration and leaves the template file as the first left it.
C8_ResolutionIdempotent ==
    (runNo > 1 /\ app.resolved /\ prev.resolved) =>
        /\ app.template = prev.template
        /\ disk = prev.disk

\* C8 witness: a second resolution with a custom template, on the template file
\* the first resolution wrote the custom values into
C8_Witness ==
    /\ runNo = 2
    /\ app.resolved /\ prev.resolved
    /\ app.customTemplate.set
    /\ ~upgraded
    /\ \E k \in DOMAIN lfile : app.template[k] # V_auto
    /\ \E k \in DOMAIN app.customTemplate.cfg \cap DOMAIN disk.cfg :
          disk.cfg[k] = app.customTemplate.cfg[k] /\ disk.cfg[k] # V_auto

\* what the claim's table gives for an alias
C9_Alias(v) ==
    CASE v \in { V_def, V_default }     -> V_auto
      [] v \in { V_y, V_on, V_true }    -> V_yes
      [] v \in { V_n, V_off, V_false }  -> V_no
      [] OTHER                          -> v

\* the values of the model in lower case with '_' for '-'
C9_Method(v) ==
    CASE v = V_Y       -> << "y" >>
      [] v = V_ON      -> << "o", "n" >>
      [] v = V_Default -> << "d", "e", "f", "a", "u", "l", "t" >>
      [] v = V_Hyphen  -> << "p", "_", "r" >>
      [] OTHER         -> v

C9_Expected(k, v) ==
    IF C9_Alias(v) # v THEN C9_Alias(v)
    ELSE IF k \in { "pysar.deramp", "pysar.troposphericDelay.method" } THEN C9_Method(v)
    ELSE v

\* the keys of the custom template whose value only the value normalization sets:
\* not the two keys dropped afterwards, nor pysar.load.processor when processor
\* overwrites it
C9_Keys ==
    { k \in DOMAIN custom.cfg :
        /\ k \notin { "SUBSET_XMIN", "SUBSET_YMIN" }
        /\ ~(k = "pysar.load.processor" /\ "processor" \in DOMAIN custom.cfg) }

\* C9: the custom template's values are normalized by exact, case-sensitive
\* tokens: def, default -> auto; y, on, true -> yes; n, off, false -> no; any
\* other value passes unchanged, except for the two method keys, whose value is
\* lower-cased with '-' replaced by '_'.
C9_ValueNormalization ==
    ResolvedWithCustom =>
        \A k \in C9_Keys :
            /\ k \in DOMAIN app.customTemplate.cfg
            /\ app.customTemplate.cfg[k] = C9_Expected(k, custom.cfg[k])

\* C9 witness: 'Y' has passed unchanged on a plain key next to a method key
\* whose hyphenated mixed-case value was rewritten
C9_Witness ==
    /\ ResolvedWithCustom
    /\ DOMAIN custom.cfg = { K_EXTRA, K_DERAMP }
    /\ custom.cfg[K_EXTRA] = V_Y /\ app.customTemplate.cfg[K_EXTRA] = V_Y
    /\ custom.cfg[K_DERAMP] = V_Hyphen
    /\ app.customTemplate.cfg[K_DERAMP] = << "p", "_", "r" >>

\* _read_template has gone past the backup of a custom template
BackupDecided ==
    /\ app.customTemplateFile # None
    /\ pc \notin { "parse", "startup", "read_template", "exit" }

\* the Staleness Oracle's RUN for the backup as the process found it
C10_Run ==
    \/ ~backup0.exists
    \/ BackupCheckReadable /\ ~backup0.readable
    \/ custom.exists /\ custom.mtime > backup0.mtime

\* C10: the backup decision is RUN iff the backup does not exist, or readability
\* is required and the backup is unreadable, or the custom template exists and
\* is strictly newer than the backup; the custom template is copied into INPUTS
\* only on RUN, and without a copy the backup is what it was.
C10_BackupOnlyWhenStale ==
    BackupDecided =>
        /\ copiedBackup => C10_Run
        /\ (C10_Run /\ custom.exists) => copiedBackup
        /\ copiedBackup =>
              /\ backup.exists
              /\ backup.cfg = custom.cfg
              /\ backup.mtime = custom.mtime
        /\ ~copiedBackup => backup = backup0

\* C10 witness: an existing, unreadable backup as new as the custom template
\* was left alone
C10_Witness ==
    /\ BackupDecided
    /\ app.resolved
    /\ backup0.exists /\ ~backup0.readable
    /\ custom.exists /\ custom.mtime = backup0.mtime
    /\ ~copiedBackup
    /\ backup = backup0


-----------------------------------------------------------------------------
(* Writes of the template file: claim C11 *)

\* where main is while startup and _read_template resolve the template
ResolutionSteps == { "startup", "read_template" }

\* C11 as stated: in one run the template file in the work directory is written
\* at most twice (the copy of the shipped default, the merged template),
\* whatever the work directory held and with or without a custom template, and
\* it changes only while the template is resolved.
C11_AtMostTwoWrites ==
    [][/\ writes' <= 2
       /\ (disk' # disk => pc \in ResolutionSteps)]_vars

\* C11 amended: in one run the template file is written at most three times (the
\* copy of the shipped default, the old option values written back after an
\* upgrade, the custom template's values), and it changes only while the
\* template is resolved.
C11_AtMostThreeWrites ==
    [][/\ writes' <= 3
       /\ (disk' # disk => pc \in ResolutionSteps /\ writes' > writes)]_vars

\* an obsolete template that held a value of its own was upgraded and then took
\* a custom template's value: three writes, and the run went on
C11_Witness ==
    /\ pc = "done"
    /\ Obsolete(disk0)
    /\ upgraded
    /\ app.customTemplate.set
    /\ writes = 3


-----------------------------------------------------------------------------
(* Failure of the template resolution: claim C12 *)

\* the custom template named on the command line is missing or malformed
BadCustom == inps.customTemplateFile # None /\ (~custom.exists \/ ~custom.wellFormed)

\* where main is before it has left startup, or after an exception ended it
BeforeStages == { "parse", "startup", "read_template", "error" }

\* C12: when the template resolution fails (the named custom template is missing,
\* or a template line is malformed), main ends with that error before configure
\* and run: no stage method is called and no stage command is dispatched.
\* Conversely a stage is reached only with the template resolved.
C12_ResolutionFailureAborts ==
    /\ BadCustom => /\ pc \in BeforeStages
                    /\ records = << >>
                    /\ proc = "idle"
                    /\ ~app.resolved /\ ~app.configured
    /\ err.kind \in { "NotFoundError", "ConfigParseError" } =>
          pc = "error" /\ records = << >> /\ proc = "idle"
    /\ (records # << >> \/ proc = "running") => app.resolved /\ err.kind = "none"

\* a malformed custom template ended main in _read_template, after startup had
\* copied the default template in
C12_Witness ==
    /\ pc = "error"
    /\ err.kind = "ConfigParseError"
    /\ BadCustom /\ custom.exists
    /\ disk.exists /\ ~disk0.exists
    /\ records = << >>


-----------------------------------------------------------------------------
(* The working directory when main ends: claim C13 *)

\* where main is when the process has ended
Ended == { "done", "error", "exit" }

\* C13: whenever a run ends, completed or failed, the working directory of the
\* process is the one __init__ captured (self.cwd, the directory the program
\* was started in).
C13_CwdRestored == pc \in Ended => cwd = "orig"


-----------------------------------------------------------------------------
(* The auxiliary copy of loadData: claim C14 *)

\* runLoadData has been called with the flag of configure set
LoadDataWanted == app.doLoadData /\ (ip > 1 \/ pc \in { "wait", "error" })

\* C14: a failure of the auxiliary copy is swallowed: it does not end the run
\* and the loadData command is dispatched all the same; without a project name
\* the auxiliary copy does nothing.
C14_AuxCopyBestEffort ==
    /\ app.auxFailed => /\ err.kind = "none"
                        /\ pc # "error"
                        /\ records # << >>
                        /\ records[1].stage = "loadData" /\ records[1].cmd
    /\ (LoadDataWanted /\ app.configured) => records # << >> /\ records[1].cmd
    /\ app.projectName = None => ~app.auxCopied /\ ~app.auxFailed

\* the auxiliary copy raised before it copied anything, load_data.py was started
\* all the same and the run came to its end
C14_Witness ==
    /\ pc = "done"
    /\ app.projectName # None
    /\ app.auxFailed /\ ~app.auxCopied
    /\ records[1] = [stage |-> "loadData", cmd |-> TRUE, status |-> Status(0)]


-----------------------------------------------------------------------------
(* Completeness of the effective configuration: claim C15 *)

\* C15: once the template is resolved, whatever the work directory held (no
\* template, an obsolete one, an up-to-date one) and with or without a custom
\* template, the effective configuration (self.template) has every key of the
\* shipped default, and so has the template file it was read from.
C15_EffectiveHasDefaultKeys ==
    app.resolved => /\ \A key \in DOMAIN lfile : key \in DOMAIN app.template
                    /\ \A key \in DOMAIN lfile : key \in DOMAIN disk.cfg

\* a template that lacked a key of the shipped default and held an option of an
\* older version was resolved with a custom template
C15_Witness ==
    /\ app.resolved
    /\ app.customTemplate.set
    /\ disk0.exists
    /\ K_TROPO \notin DOMAIN disk0.cfg
    /\ K_OLD \in DOMAIN disk0.cfg
    /\ K_TROPO \in DOMAIN app.template


-----------------------------------------------------------------------------
(* The legacy option processor: claim C16 *)

\* C16: when the custom template sets processor, the custom configuration that
\* is merged holds that value (as normalized) under pysar.load.processor,
\* whatever the custom template gave for pysar.load.processor itself, and the
\* merged template file and the effective configuration hold it too; when the
\* custom template does not set processor, pysar.load.processor is in the
\* custom configuration only as the custom template gave it.
C16_ProcessorForwarded ==
    ResolvedWithCustom =>
        LET ct == app.customTemplate.cfg
        IN  IF "processor" \in DOMAIN custom.cfg
            THEN /\ "processor" \in DOMAIN ct
                 /\ ct["processor"] = C9_Alias(custom.cfg["processor"])
                 /\ "pysar.load.processor" \in DOMAIN ct
                 /\ ct["pysar.load.processor"] = ct["processor"]
                 /\ disk.cfg["pysar.load.processor"] = ct["processor"]
                 /\ app.template["pysar.load.processor"] = ct["processor"]
            ELSE /\ "pysar.load.processor" \in DOMAIN ct <=>
                      "pysar.load.processor" \in DOMAIN custom.cfg
                 /\ "pysar.load.processor" \in DOMAIN ct =>
                      ct["pysar.load.processor"] =
                          C9_Alias(custom.cfg["pysar.load.processor"])

\* a custom template that sets processor and, to another value,
\* pysar.load.processor: the value of processor is the effective one
C16_Witness ==
    /\ ResolvedWithCustom
    /\ "processor" \in DOMAIN custom.cfg
    /\ "pysar.load.processor" \in DOMAIN custom.cfg
    /\ custom.cfg["pysar.load.processor"] # custom.cfg["processor"]
    /\ app.template["pysar.load.processor"] = custom.cfg["processor"]


-----------------------------------------------------------------------------
(* The options of load_data.py alone: claim C17 *)

\* C17: SUBSET_XMIN and SUBSET_YMIN are not in the custom configuration that is
\* merged, and the custom template brings neither into the template file nor
\* into the effective configuration; every other key of the custom template,
\* also one the shipped default does not have, is in the custom configuration.
C17_LoadOnlyKeysDropped ==
    ResolvedWithCustom =>
        /\ \A key \in { "SUBSET_XMIN", "SUBSET_YMIN" } :
              /\ key \notin DOMAIN app.customTemplate.cfg
              /\ key \notin DOMAIN tier =>
                    key \notin DOMAIN disk.cfg /\ key \notin DOMAIN app.template
        /\ \A key \in DOMAIN custom.cfg \ { "SUBSET_XMIN", "SUBSET_YMIN" } :
              key \in DOMAIN app.customTemplate.cfg

\* a custom template with SUBSET_YMIN and an option the shipped default does not
\* have: the second reached the effective configuration, the first did not
C17_Witness ==
    /\ ResolvedWithCustom
    /\ DOMAIN custom.cfg = { "SUBSET_YMIN", "pysar.extra" }
    /\ DOMAIN app.customTemplate.cfg = { "pysar.extra" }
    /\ "pysar.extra" \in DOMAIN app.template
    /\ "SUBSET_YMIN" \notin DOMAIN app.template


-----------------------------------------------------------------------------
(* The value normalization applied twice: claim C18 *)

\* lines 227-238 applied to a configuration: the alias pass, then the method pass
C18_Normalize(cdict) == normalize_methods(normalize_values(cdict))

\* C18: the value normalization is idempotent: applied to the configuration it
\* has produced from a custom template, it changes no value of it, also not a
\* 'Default' or an 'ON' given for one of the two method keys.
C18_NormalizeIdempotent ==
    ResolvedWithCustom =>
        LET once == C18_Normalize(read_template(custom))
        IN  C18_Normalize(once) = once


-----------------------------------------------------------------------------
(* A start step after the end step: claim C19 *)

\* --start and --end are catalog stages, the first after the second, and
\* --dostep is not given
StartAfterEnd ==
    /\ args.flag = "none"
    /\ ~Truthy(args.doStep)
    /\ InStepList(args.startStep) /\ InStepList(args.endStep)
    /\ Place(args.startStep) > Place(args.endStep)

\* C19: with a valid --start that is after a valid --end in the catalog, and no
\* --dostep, cmd_line_parse raises nothing and selects no stage, and the run
\* starts no stage command.
C19_StartAfterEndRunsNothing ==
    StartAfterEnd =>
        /\ err.kind = "none"
        /\ pc # "error"
        /\ inps.runSteps = << >>
        /\ proc = "idle"
        /\ \A i \in DOMAIN records : ~records[i].cmd

\* --start hdfEos5 --end loadData: the run came to its end with loadData and
\* refPoint called and no command started
C19_Witness ==
    /\ pc = "done"
    /\ StartAfterEnd
    /\ args.endStep = "loadData"
    /\ inps.runSteps = << >>
    /\ Len(records) = 2
    /\ ~records[1].cmd

====
